---- MODULE Spec2Model ----
(***************************************************************************)
(* kenko: the health checker (internal/monitor).                           *)
(*                                                                         *)
(* Two variants of the Checker live in the repository:                     *)
(*   - the in-memory Checker   (internal/monitor/monitor.go)   -> Spec     *)
(*   - the mirror-backed Checker, which writes every result through to a   *)
(*     redis hash and reads it back in Results()               -> SpecMirror*)
(* Both share Run, checkAll and check; they differ in the goroutine body   *)
(* (storeResult) and in Results().                                         *)
(*                                                                         *)
(* A goroutine of checkAll is a task <<cycle, index>>; its steps are the   *)
(* statements of the closure.  Time is a logical clock as coarse as the    *)
(* check interval: it advances by one with every cycle, so the probes of   *)
(* one cycle read the same time.  The latency histogram is not modelled    *)
(* (no property below reads it).                                           *)
(***************************************************************************)
EXTENDS Integers, Sequences, FiniteSets, TLC

\* ------------------------------------------------------------------ bounds
MaxCycles == 2
MaxReads == 1

\* --------------------------------------------------------------- constants
StatusHealthy == "healthy"
StatusUnhealthy == "unhealthy"
Statuses == {StatusHealthy, StatusUnhealthy}

\* resp.StatusCode >= 400 is unhealthy
BadStatusCode == 400

\* status codes a server answers with in the model: both sides of the threshold
StatusCodes == {200, 399, 400}

\* URLs of the model; http.NewRequestWithContext rejects the malformed one
GoodURL == "http://x/a"
MalformedURL == ":bad"

\* the configured target lists the model starts from: one with unique names
\* (one target has a malformed URL), one with a duplicated name
TargetLists ==
    { << [Name |-> "a", URL |-> GoodURL], [Name |-> "b", URL |-> MalformedURL] >>,
      << [Name |-> "a", URL |-> GoodURL], [Name |-> "a", URL |-> MalformedURL] >> }

\* ------------------------------------------------------------------- state
VARIABLES
    targets,          \* c.targets
    results,          \* c.results: map name -> Result
    mu,               \* c.mu: [writer: set of tasks holding Lock, readers: count of RLock holders]
    ctxDone,          \* the context of Run is cancelled
    runPc,            \* where Run is: "start", "wait", "newticker", "select", "stopped"
    ticker,           \* the ticker exists and has not been stopped
    tickC,            \* ticks buffered in ticker.C (capacity 1)
    cyclesStarted,    \* calls of checkAll
    cyclesCompleted,  \* returns of checkAll
    ticksConsumed,    \* receives from ticker.C
    tasks,            \* goroutines of checkAll: <<cycle, index>> -> locals
    now,              \* the clock
    checkTotal,       \* counter kenko_check_total{target,status}
    targetUp,         \* gauge kenko_target_up{target}
    mirror,           \* the redis hash kenko:results: name -> JSON
    rpc,              \* where the caller of Results() is
    rerr,             \* Results(): err of HGetAll
    rvals,            \* Results(): vals of HGetAll
    snap,             \* the map Results() returned last (out)
    shared,           \* whether out is the map c.results itself (FALSE: a map of its own)
    reads,            \* returns of Results()
    lastWritten,      \* history: per name, the Result of the last goroutine that took the lock to write it
    probed            \* history: per target index, the cycle and Result of its last finished probe

vars == << targets, results, mu, ctxDone, runPc, ticker, tickC, cyclesStarted,
           cyclesCompleted, ticksConsumed, tasks, now, checkTotal, targetUp,
           mirror, rpc, rerr, rvals, snap, shared, reads, lastWritten, probed >>

runVars == << ctxDone, runPc, ticker, tickC, cyclesStarted, cyclesCompleted, ticksConsumed >>
metricVars == << checkTotal, targetUp >>
readerVars == << rpc, rerr, rvals, snap, shared, reads >>

\* ------------------------------------------------------------------- data
\* the zero value of Result
ZeroResult ==
    [Target |-> "", URL |-> "", Status |-> "", StatusCode |-> 0,
     Latency |-> 0, Error |-> "", CheckedAt |-> 0]

\* an empty Go map
EmptyMap == [k \in {} |-> ZeroResult]

\* m[k] = v on a Go map
Put(m, k, v) == [x \in DOMAIN m \cup {k} |-> IF x = k THEN v ELSE m[x]]

\* the value of a counter that may not have been created yet
Count(m, k) == IF k \in DOMAIN m THEN m[k] ELSE 0

\* fmt.Sprintf(prefix + "%v", err)
Sprintf(prefix, detail) == prefix \o detail

HasPrefix(s, p) == Len(s) >= Len(p) /\ SubSeq(s, 1, Len(p)) = p

\* http.NewRequestWithContext: the error for a URL that does not parse, "" for none
NewRequestErr(url) == IF url = MalformedURL THEN "parse error" ELSE ""

\* resp, err before c.client.Do has answered
NoAnswer == [err |-> "", code |-> 0]

\* what c.client.Do can answer: a transport error (the only answer once the
\* context was cancelled before the call), or a response with a status code.
\* It is not called for a URL that http.NewRequestWithContext rejects
DoOutcomes(url, cancelled) ==
    IF NewRequestErr(url) # ""
    THEN { NoAnswer }
    ELSE IF cancelled
    THEN { [err |-> "context canceled", code |-> 0] }
    ELSE { [err |-> "timeout", code |-> 0] }
         \cup { [err |-> "", code |-> c] : c \in StatusCodes }

\* check with the threshold off by one: 400 counts as healthy
check_StrictThreshold(t, do, start, end) ==
    IF NewRequestErr(t.URL) # ""
    THEN [Target |-> t.Name, URL |-> t.URL, Status |-> StatusUnhealthy,
          StatusCode |-> 0, Latency |-> end - start,
          Error |-> Sprintf("bad request: ", NewRequestErr(t.URL)),
          CheckedAt |-> end]
    ELSE IF do.err # ""
    THEN [Target |-> t.Name, URL |-> t.URL, Status |-> StatusUnhealthy,
          StatusCode |-> 0, Latency |-> end - start,
          Error |-> Sprintf("request failed: ", do.err),
          CheckedAt |-> end]
    ELSE [Target |-> t.Name, URL |-> t.URL,
          Status |-> IF do.code > BadStatusCode THEN StatusUnhealthy ELSE StatusHealthy,
          StatusCode |-> do.code, Latency |-> end - start,
          Error |-> "", CheckedAt |-> end]

\* check that also reports a status code >= 400 as an error message
check_ErrorOnBadStatus(t, do, start, end) ==
    IF NewRequestErr(t.URL) # ""
    THEN [Target |-> t.Name, URL |-> t.URL, Status |-> StatusUnhealthy,
          StatusCode |-> 0, Latency |-> end - start,
          Error |-> Sprintf("bad request: ", NewRequestErr(t.URL)),
          CheckedAt |-> end]
    ELSE IF do.err # ""
    THEN [Target |-> t.Name, URL |-> t.URL, Status |-> StatusUnhealthy,
          StatusCode |-> 0, Latency |-> end - start,
          Error |-> Sprintf("request failed: ", do.err),
          CheckedAt |-> end]
    ELSE [Target |-> t.Name, URL |-> t.URL,
          Status |-> IF do.code >= BadStatusCode THEN StatusUnhealthy ELSE StatusHealthy,
          StatusCode |-> do.code, Latency |-> end - start,
          Error |-> IF do.code >= BadStatusCode THEN Sprintf("request failed: ", "bad status") ELSE "",
          CheckedAt |-> end]

\* Checker.check: the Result of one probe of target t, given the answer of
\* c.client.Do, the time it started and the time it ended
check(t, do, start, end) ==
    IF NewRequestErr(t.URL) # ""
    THEN [Target |-> t.Name, URL |-> t.URL, Status |-> StatusUnhealthy,
          StatusCode |-> 0, Latency |-> end - start,
          Error |-> Sprintf("bad request: ", NewRequestErr(t.URL)),
          CheckedAt |-> end]
    ELSE IF do.err # ""
    THEN [Target |-> t.Name, URL |-> t.URL, Status |-> StatusUnhealthy,
          StatusCode |-> 0, Latency |-> end - start,
          Error |-> Sprintf("request failed: ", do.err),
          CheckedAt |-> end]
    ELSE [Target |-> t.Name, URL |-> t.URL,
          Status |-> IF do.code >= BadStatusCode THEN StatusUnhealthy ELSE StatusHealthy,
          StatusCode |-> do.code, Latency |-> end - start,
          Error |-> "", CheckedAt |-> end]

\* json.Marshal(result): the JSON object of the struct tags; "error" is
\* omitempty.  A value of the hash is a JSON object or bytes that are none
Marshal(r) ==
    LET base == [target |-> r.Target, url |-> r.URL, status |-> r.Status,
                 status_code |-> r.StatusCode, latency |-> r.Latency,
                 checked_at |-> r.CheckedAt]
    IN [kind |-> "object",
        fields |-> IF r.Error = "" THEN base ELSE base @@ ("error" :> r.Error)]

\* json.Unmarshal(data, &r) succeeds
UnmarshalOk(data) == data.kind = "object"

\* the Result json.Unmarshal fills in: a key that is absent leaves the zero value
Unmarshal(data) ==
    LET f == data.fields
        get(k, zero) == IF k \in DOMAIN f THEN f[k] ELSE zero
    IN [Target |-> get("target", ""), URL |-> get("url", ""),
        Status |-> get("status", ""), StatusCode |-> get("status_code", 0),
        Latency |-> get("latency", 0), Error |-> get("error", ""),
        CheckedAt |-> get("checked_at", 0)]

\* ------------------------------------------------------------ the checker
Indices == 1..Len(targets)
Names == { targets[i].Name : i \in Indices }
UniqueNames == \A i, j \in Indices : targets[i].Name = targets[j].Name => i = j

\* the locals of a goroutine of checkAll when it is launched
NewTask(cancelled) ==
    [pc |-> "check", cancelled |-> cancelled,
     do |-> NoAnswer, result |-> ZeroResult, serr |-> ""]

InFlight == { t \in DOMAIN tasks : tasks[t].pc # "done" }
CyclesInFlight == { t[1] : t \in InFlight }
Quiescent == InFlight = {}

\* NewChecker: an empty result map, nothing running
Init ==
    /\ targets \in TargetLists
    /\ results = EmptyMap
    /\ mu = [writer |-> {}, readers |-> 0]
    /\ ctxDone = FALSE
    /\ runPc = "start"
    /\ ticker = FALSE
    /\ tickC = 0
    /\ cyclesStarted = 0
    /\ cyclesCompleted = 0
    /\ ticksConsumed = 0
    /\ tasks = << >>
    /\ now = 0
    /\ checkTotal = << >>
    /\ targetUp = << >>
    /\ mirror = << >>
    /\ rpc = "idle"
    /\ rerr = FALSE
    /\ rvals = << >>
    /\ snap = EmptyMap
    /\ shared = FALSE
    /\ reads = 0
    /\ lastWritten = EmptyMap
    /\ probed = << >>

\* checkAll whose loop stops one target short: the last target gets no goroutine
Launch_SkipLast ==
    /\ cyclesStarted' = cyclesStarted + 1
    /\ now' = now + 1
    /\ tasks' = [t \in DOMAIN tasks \cup ({cyclesStarted + 1} \X (Indices \ {Len(targets)})) |->
                   IF t \in DOMAIN tasks THEN tasks[t] ELSE NewTask(ctxDone)]

\* checkAll, the loop: one goroutine per target (wg.Add(1); go func ...).
\* A cycle starts later than the one before it
Launch ==
    /\ cyclesStarted' = cyclesStarted + 1
    /\ now' = now + 1
    /\ tasks' = [t \in DOMAIN tasks \cup ({cyclesStarted + 1} \X Indices) |->
                   IF t \in DOMAIN tasks THEN tasks[t] ELSE NewTask(ctxDone)]

\* checkAll without wg.Wait(): it returns while its goroutines run
WaitDone_NoWait(c) == TRUE

\* wg.Wait() of the cycle c returns when its goroutines have called wg.Done()
WaitDone(c) == \A t \in DOMAIN tasks : t[1] = c => tasks[t].pc = "done"

\* Run without the first checkAll: straight to the ticker
RunStart_NoFirstCycle ==
    /\ runPc = "start"
    /\ runPc' = "newticker"
    /\ UNCHANGED << targets, results, mu, ctxDone, ticker, tickC, cyclesStarted,
                    cyclesCompleted, ticksConsumed, tasks, now, mirror, lastWritten, probed >>
    /\ UNCHANGED metricVars
    /\ UNCHANGED readerVars

\* Run, up to wg.Wait of the first checkAll
RunStart ==
    /\ runPc = "start"
    /\ Launch
    /\ runPc' = "wait"
    /\ UNCHANGED << targets, results, mu, ctxDone, ticker, tickC, cyclesCompleted,
                    ticksConsumed, mirror, lastWritten, probed >>
    /\ UNCHANGED metricVars
    /\ UNCHANGED readerVars

\* a checkAll that reports failure and a Run that returns on it
CheckAllReturn_StopOnFailure ==
    /\ runPc = "wait"
    /\ WaitDone(cyclesStarted)
    /\ cyclesCompleted' = cyclesCompleted + 1
    /\ tasks' = [t \in InFlight |-> tasks[t]]
    /\ runPc' = IF \E n \in DOMAIN results : results[n].Status = StatusUnhealthy
                  THEN "stopped"
                  ELSE IF ticker THEN "select" ELSE "newticker"
    /\ UNCHANGED << targets, results, mu, ctxDone, ticker, tickC, cyclesStarted,
                    ticksConsumed, now, mirror, lastWritten, probed >>
    /\ UNCHANGED metricVars
    /\ UNCHANGED readerVars

\* checkAll returns: wg.Wait() is over; the goroutines that are done are gone
CheckAllReturn ==
    /\ runPc = "wait"
    /\ WaitDone(cyclesStarted)
    /\ cyclesCompleted' = cyclesCompleted + 1
    /\ tasks' = [t \in InFlight |-> tasks[t]]
    /\ runPc' = IF ticker THEN "select" ELSE "newticker"
    /\ UNCHANGED << targets, results, mu, ctxDone, ticker, tickC, cyclesStarted,
                    ticksConsumed, now, mirror, lastWritten, probed >>
    /\ UNCHANGED metricVars
    /\ UNCHANGED readerVars

\* ticker := time.NewTicker(c.interval)
NewTicker ==
    /\ runPc = "newticker"
    /\ ticker' = TRUE
    /\ runPc' = "select"
    /\ UNCHANGED << targets, results, mu, ctxDone, tickC, cyclesStarted, cyclesCompleted,
                    ticksConsumed, tasks, now, mirror, lastWritten, probed >>
    /\ UNCHANGED metricVars
    /\ UNCHANGED readerVars

\* the runtime's timer: a tick is sent to ticker.C unless one is buffered
\* already (then it is dropped, which changes nothing)
TimerFire ==
    /\ ticker
    /\ tickC = 0
    /\ tickC' = 1
    /\ UNCHANGED << targets, results, mu, ctxDone, runPc, ticker, cyclesStarted,
                    cyclesCompleted, ticksConsumed, tasks, now, mirror, lastWritten, probed >>
    /\ UNCHANGED metricVars
    /\ UNCHANGED readerVars

\* the process receives SIGINT/SIGTERM: signal.NotifyContext cancels ctx
Cancel ==
    /\ ~ctxDone
    /\ ctxDone' = TRUE
    /\ UNCHANGED << targets, results, mu, runPc, ticker, tickC, cyclesStarted,
                    cyclesCompleted, ticksConsumed, tasks, now, mirror, lastWritten, probed >>
    /\ UNCHANGED metricVars
    /\ UNCHANGED readerVars

\* select, case <-ctx.Done(): continue, a Run that never returns
SelectDone_Continue ==
    /\ runPc = "select"
    /\ ctxDone
    /\ UNCHANGED vars

\* select, case <-ctx.Done(): return (defer ticker.Stop())
SelectDone ==
    /\ runPc = "select"
    /\ ctxDone
    /\ runPc' = "stopped"
    /\ ticker' = FALSE
    /\ UNCHANGED << targets, results, mu, ctxDone, tickC, cyclesStarted, cyclesCompleted,
                    ticksConsumed, tasks, now, mirror, lastWritten, probed >>
    /\ UNCHANGED metricVars
    /\ UNCHANGED readerVars

\* select, case <-ticker.C: c.checkAll(ctx).  select takes any ready case:
\* ctx.Done() being ready as well does not disable this one
SelectTick ==
    /\ runPc = "select"
    /\ tickC = 1
    /\ cyclesStarted < MaxCycles
    /\ tickC' = 0
    /\ ticksConsumed' = ticksConsumed + 1
    /\ Launch
    /\ runPc' = "wait"
    /\ UNCHANGED << targets, results, mu, ctxDone, ticker, cyclesCompleted,
                    mirror, lastWritten, probed >>
    /\ UNCHANGED metricVars
    /\ UNCHANGED readerVars

\* ------------------------------------------------- a goroutine of checkAll
NameOf(t) == targets[t[2]].Name

\* result := c.check(ctx, t): start and end are read from the clock
Check(t) ==
    /\ t \in DOMAIN tasks
    /\ tasks[t].pc = "check"
    /\ \E do \in DoOutcomes(targets[t[2]].URL, tasks[t].cancelled) :
         LET r == check(targets[t[2]], do, now, now) IN
         /\ tasks' = [tasks EXCEPT ![t] = [@ EXCEPT !.pc = "lock", !.do = do, !.result = r]]
         /\ probed' = Put(probed, t[2], [cycle |-> t[1], result |-> r])
    /\ UNCHANGED << targets, results, mu, now, mirror, lastWritten >>
    /\ UNCHANGED runVars
    /\ UNCHANGED metricVars
    /\ UNCHANGED readerVars

\* sync.RWMutex: Lock waits for the writer and the readers to leave
CanLock(m) == m.writer = {} /\ m.readers = 0

\* an RLock that does not wait for the writer
CanRLock_NoWait(m) == TRUE

\* sync.RWMutex: RLock waits for the writer to leave
CanRLock(m) == m.writer = {}

\* c.mu.Lock()
MuLock(t) ==
    /\ t \in DOMAIN tasks
    /\ tasks[t].pc = "lock"
    /\ CanLock(mu)
    /\ mu' = [mu EXCEPT !.writer = @ \cup {t}]
    /\ tasks' = [tasks EXCEPT ![t].pc = "write"]
    /\ lastWritten' = Put(lastWritten, NameOf(t), tasks[t].result)
    /\ UNCHANGED << targets, results, now, mirror, probed >>
    /\ UNCHANGED runVars
    /\ UNCHANGED metricVars
    /\ UNCHANGED readerVars

\* a map write keyed by the Result's URL: c.results[result.URL] = result
WriteHead_ByURL(t) ==
    /\ t \in DOMAIN tasks
    /\ tasks[t].pc = "write"
    /\ LET n == tasks[t].result.URL
           old == IF n \in DOMAIN results THEN results[n] ELSE ZeroResult
           r == tasks[t].result
       IN results' = Put(results, n, [old EXCEPT !.Target = r.Target, !.URL = r.URL,
                                                 !.Status = r.Status,
                                                 !.StatusCode = r.StatusCode])
    /\ tasks' = [tasks EXCEPT ![t].pc = "write2"]
    /\ UNCHANGED << targets, mu, now, mirror, lastWritten, probed >>
    /\ UNCHANGED runVars
    /\ UNCHANGED metricVars
    /\ UNCHANGED readerVars

\* c.results[t.Name] = result copies a struct of several words; it is one
\* write only to those the lock keeps out.  First the words Target..StatusCode
WriteHead(t) ==
    /\ t \in DOMAIN tasks
    /\ tasks[t].pc = "write"
    /\ LET n == NameOf(t)
           old == IF n \in DOMAIN results THEN results[n] ELSE ZeroResult
           r == tasks[t].result
       IN results' = Put(results, n, [old EXCEPT !.Target = r.Target, !.URL = r.URL,
                                                 !.Status = r.Status,
                                                 !.StatusCode = r.StatusCode])
    /\ tasks' = [tasks EXCEPT ![t].pc = "write2"]
    /\ UNCHANGED << targets, mu, now, mirror, lastWritten, probed >>
    /\ UNCHANGED runVars
    /\ UNCHANGED metricVars
    /\ UNCHANGED readerVars

\* ... then the words Latency..CheckedAt
WriteTail(t) ==
    /\ t \in DOMAIN tasks
    /\ tasks[t].pc = "write2"
    /\ LET n == NameOf(t)
           old == IF n \in DOMAIN results THEN results[n] ELSE ZeroResult
           r == tasks[t].result
       IN results' = Put(results, n, [old EXCEPT !.Latency = r.Latency, !.Error = r.Error,
                                                 !.CheckedAt = r.CheckedAt])
    /\ tasks' = [tasks EXCEPT ![t].pc = "unlock"]
    /\ UNCHANGED << targets, mu, now, mirror, lastWritten, probed >>
    /\ UNCHANGED runVars
    /\ UNCHANGED metricVars
    /\ UNCHANGED readerVars

\* c.mu.Unlock(), and on to the statement that follows it
MuUnlock(t, next) ==
    /\ t \in DOMAIN tasks
    /\ tasks[t].pc = "unlock"
    /\ mu' = [mu EXCEPT !.writer = @ \ {t}]
    /\ tasks' = [tasks EXCEPT ![t].pc = next]
    /\ UNCHANGED << targets, results, now, mirror, lastWritten, probed >>
    /\ UNCHANGED runVars
    /\ UNCHANGED metricVars
    /\ UNCHANGED readerVars

\* the in-memory Checker goes on to the metrics
Unlock(t) == MuUnlock(t, "metrics")

\* metrics without the else branch: the gauge is set to 1 whatever the Result
Metrics_GaugeUp(t) ==
    /\ t \in DOMAIN tasks
    /\ tasks[t].pc = "metrics"
    /\ LET r == tasks[t].result
           k == << NameOf(t), r.Status >>
       IN /\ checkTotal' = Put(checkTotal, k, Count(checkTotal, k) + 1)
          /\ targetUp' = Put(targetUp, NameOf(t), 1)
    /\ tasks' = [tasks EXCEPT ![t] = [@ EXCEPT !.pc = "done", !.do = NoAnswer,
                                              !.result = ZeroResult, !.serr = ""]]
    /\ UNCHANGED << targets, results, mu, now, mirror, lastWritten, probed >>
    /\ UNCHANGED runVars
    /\ UNCHANGED readerVars

\* checkTotal.WithLabelValues(t.Name, status).Inc(); targetUp...Set(1 or 0);
\* the closure returns: wg.Done()
Metrics(t) ==
    /\ t \in DOMAIN tasks
    /\ tasks[t].pc = "metrics"
    /\ LET r == tasks[t].result
           k == << NameOf(t), r.Status >>
       IN /\ checkTotal' = Put(checkTotal, k, Count(checkTotal, k) + 1)
          /\ targetUp' = Put(targetUp, NameOf(t), IF r.Status = StatusHealthy THEN 1 ELSE 0)
    /\ tasks' = [tasks EXCEPT ![t] = [@ EXCEPT !.pc = "done", !.do = NoAnswer,
                                              !.result = ZeroResult, !.serr = ""]]
    /\ UNCHANGED << targets, results, mu, now, mirror, lastWritten, probed >>
    /\ UNCHANGED runVars
    /\ UNCHANGED readerVars

\* ------------------------------------------------------------- Results()
\* c.mu.RLock(), reached from the place `from` of Results()
MuRLock(from) ==
    /\ rpc = from
    /\ reads < MaxReads
    /\ CanRLock(mu)
    /\ mu' = [mu EXCEPT !.readers = @ + 1]
    /\ rpc' = "locked"
    /\ UNCHANGED << targets, results, tasks, now, mirror, lastWritten, probed,
                    rerr, rvals, snap, shared, reads >>
    /\ UNCHANGED runVars
    /\ UNCHANGED metricVars

\* the in-memory Results() starts with the lock
RLock == MuRLock("idle")

\* Results() that hands out c.results itself: return c.results
Copy_NoCopy ==
    /\ rpc = "locked"
    /\ snap' = results
    /\ shared' = TRUE
    /\ rpc' = "copied"
    /\ UNCHANGED << targets, results, mu, tasks, now, mirror, lastWritten, probed,
                    rerr, rvals, reads >>
    /\ UNCHANGED runVars
    /\ UNCHANGED metricVars

\* out := make(...); for k, v := range c.results { out[k] = v }
Copy ==
    /\ rpc = "locked"
    /\ snap' = results
    /\ shared' = FALSE
    /\ rpc' = "copied"
    /\ UNCHANGED << targets, results, mu, tasks, now, mirror, lastWritten, probed,
                    rerr, rvals, reads >>
    /\ UNCHANGED runVars
    /\ UNCHANGED metricVars

\* return out (defer c.mu.RUnlock())
Return ==
    /\ rpc = "copied"
    /\ mu' = [mu EXCEPT !.readers = @ - 1]
    /\ rpc' = "idle"
    /\ reads' = reads + 1
    /\ UNCHANGED << targets, results, tasks, now, mirror, lastWritten, probed,
                    rerr, rvals, snap, shared >>
    /\ UNCHANGED runVars
    /\ UNCHANGED metricVars

\* ------------------------------------------------- the in-memory Checker
Tasks == (1..MaxCycles) \X (1..2)

Next ==
    \/ RunStart
    \/ CheckAllReturn
    \/ NewTicker
    \/ TimerFire
    \/ Cancel
    \/ SelectDone
    \/ SelectTick
    \/ \E t \in Tasks : Check(t)
    \/ \E t \in Tasks : MuLock(t)
    \/ \E t \in Tasks : WriteHead(t)
    \/ \E t \in Tasks : WriteTail(t)
    \/ \E t \in Tasks : Unlock(t)
    \/ \E t \in Tasks : Metrics(t)
    \/ RLock
    \/ Copy
    \/ Return

Spec == Init /\ [][Next]_vars

\* the scheduling of the in-memory Checker: the Run goroutine and every
\* goroutine of checkAll go on when they can (a probe returns, the mutex is
\* granted, a reader of Results() releases its lock); a select that finds
\* ctx.Done() ready again and again takes that case in the end (Go picks
\* among the ready cases at random).  Nothing is assumed of the signal, the
\* ticker or the callers of Results()
Fairness ==
    /\ WF_vars(RunStart)
    /\ WF_vars(CheckAllReturn)
    /\ WF_vars(NewTicker)
    /\ SF_vars(SelectDone)
    /\ \A t \in Tasks :
         /\ WF_vars(Check(t))
         /\ WF_vars(MuLock(t))
         /\ WF_vars(WriteHead(t))
         /\ WF_vars(WriteTail(t))
         /\ WF_vars(Unlock(t))
         /\ WF_vars(Metrics(t))
    /\ WF_vars(Copy)
    /\ WF_vars(Return)

FairSpec == Init /\ [][Next]_vars /\ Fairness

\* ------------------------------------- a caller that changes what it got
\* the map the caller of Results() holds
Out == IF shared THEN results ELSE snap

\* delete(m, k)
Delete(m, k) == [x \in DOMAIN m \ {k} |-> m[x]]

\* the caller deletes a key of the map Results() returned to it
CallerDelete ==
    /\ rpc = "idle"
    /\ reads >= 1
    /\ \E k \in DOMAIN Out :
         IF shared
           THEN results' = Delete(results, k) /\ snap' = snap
           ELSE snap' = Delete(snap, k) /\ results' = results
    /\ UNCHANGED << targets, mu, tasks, now, mirror, lastWritten, probed,
                    rpc, rerr, rvals, shared, reads >>
    /\ UNCHANGED runVars
    /\ UNCHANGED metricVars

NextCaller ==
    \/ Next
    \/ CallerDelete

SpecCaller == Init /\ [][NextCaller]_vars

\* ------------------------------------------- the mirror-backed Checker
\* a goroutine that keeps the lock over c.storeResult (defer c.mu.Unlock())
UnlockMirror_Deferred(t) ==
    /\ t \in DOMAIN tasks
    /\ tasks[t].pc = "unlock"
    /\ tasks' = [tasks EXCEPT ![t].pc = "store"]
    /\ UNCHANGED << targets, results, mu, now, mirror, lastWritten, probed >>
    /\ UNCHANGED runVars
    /\ UNCHANGED metricVars
    /\ UNCHANGED readerVars

\* the mirror-backed Checker goes on to c.storeResult
UnlockMirror(t) == MuUnlock(t, "store")

\* storeResult whose failure ends the goroutine: the metrics are skipped
storeResult_Abort(t) ==
    /\ t \in DOMAIN tasks
    /\ tasks[t].pc = "store"
    /\ \/ /\ tasks' = [tasks EXCEPT ![t] = [@ EXCEPT !.pc = "done", !.serr = "marshal"]]
          /\ UNCHANGED mirror
       \/ /\ tasks' = [tasks EXCEPT ![t] = [@ EXCEPT !.pc = "done", !.serr = "hset"]]
          /\ UNCHANGED mirror
       \/ /\ tasks' = [tasks EXCEPT ![t].pc = "metrics"]
          /\ mirror' = Put(mirror, NameOf(t), Marshal(tasks[t].result))
    /\ UNCHANGED << targets, results, mu, now, lastWritten, probed >>
    /\ UNCHANGED runVars
    /\ UNCHANGED metricVars
    /\ UNCHANGED readerVars

\* c.storeResult(ctx, t.Name, result): json.Marshal fails (logged, return),
\* or HSet fails (logged), or the hash field is set; nothing is returned
storeResult(t) ==
    /\ t \in DOMAIN tasks
    /\ tasks[t].pc = "store"
    /\ \/ /\ tasks' = [tasks EXCEPT ![t] = [@ EXCEPT !.pc = "metrics", !.serr = "marshal"]]
          /\ UNCHANGED mirror
       \/ /\ tasks' = [tasks EXCEPT ![t] = [@ EXCEPT !.pc = "metrics", !.serr = "hset"]]
          /\ UNCHANGED mirror
       \/ /\ tasks' = [tasks EXCEPT ![t].pc = "metrics"]
          /\ mirror' = Put(mirror, NameOf(t), Marshal(tasks[t].result))
    /\ UNCHANGED << targets, results, mu, now, lastWritten, probed >>
    /\ UNCHANGED runVars
    /\ UNCHANGED metricVars
    /\ UNCHANGED readerVars

\* Results() that takes any successful read, also an empty one
MirrorUsable_NoLen(err, vals) == ~err

\* Results(): err == nil && len(vals) > 0
MirrorUsable(err, vals) == ~err /\ Cardinality(DOMAIN vals) > 0

\* Results(): the map built from vals; an entry that does not unmarshal is left out
Decode(vals) ==
    [n \in { k \in DOMAIN vals : UnmarshalOk(vals[k]) } |-> Unmarshal(vals[n])]

\* Results(): vals, err := c.rdb.HGetAll(...).Result(), which fails or reads
\* the hash; then either return the decoded map or fall through to the lock
HGetAll ==
    /\ rpc = "idle"
    /\ reads < MaxReads
    /\ \E err \in BOOLEAN :
         LET vals == IF err THEN << >> ELSE mirror IN
         /\ rerr' = err
         /\ rvals' = vals
         /\ \/ /\ MirrorUsable(err, vals)
               /\ snap' = Decode(vals)
               /\ shared' = FALSE
               /\ reads' = reads + 1
               /\ rpc' = "idle"
            \/ /\ ~MirrorUsable(err, vals)
               /\ rpc' = "fallback"
               /\ UNCHANGED << snap, shared, reads >>
    /\ UNCHANGED << targets, results, mu, tasks, now, mirror, lastWritten, probed >>
    /\ UNCHANGED runVars
    /\ UNCHANGED metricVars

\* the fallback of the mirror-backed Results() takes the lock
RLockFallback == MuRLock("fallback")

NextMirror ==
    \/ RunStart
    \/ CheckAllReturn
    \/ NewTicker
    \/ TimerFire
    \/ Cancel
    \/ SelectDone
    \/ SelectTick
    \/ \E t \in Tasks : Check(t)
    \/ \E t \in Tasks : MuLock(t)
    \/ \E t \in Tasks : WriteHead(t)
    \/ \E t \in Tasks : WriteTail(t)
    \/ \E t \in Tasks : UnlockMirror(t)
    \/ \E t \in Tasks : storeResult(t)
    \/ \E t \in Tasks : Metrics(t)
    \/ HGetAll
    \/ RLockFallback
    \/ Copy
    \/ Return

SpecMirror == Init /\ [][NextMirror]_vars

\* --------------------------- the redis hash in the hands of other clients
\* bytes that are no JSON object
NotJSON == [kind |-> "bytes", fields |-> << >>]

\* another client of the redis server sets a field of kenko:results to bytes
\* that do not unmarshal into a Result
ForeignHSet ==
    /\ \E n \in Names :
         /\ (n \in DOMAIN mirror => mirror[n] # NotJSON)
         /\ mirror' = Put(mirror, n, NotJSON)
    /\ UNCHANGED << targets, results, mu, tasks, now, lastWritten, probed >>
    /\ UNCHANGED runVars
    /\ UNCHANGED metricVars
    /\ UNCHANGED readerVars

NextShared ==
    \/ NextMirror
    \/ ForeignHSet

SpecShared == Init /\ [][NextShared]_vars

\* ================================================================ claims
\* the goroutines that hold the Result of their probe
HasResult == { t \in DOMAIN tasks : tasks[t].pc \notin {"check", "done"} }

\* a response came back: the request was built and Do returned no error
GotResponse(t) == NewRequestErr(targets[t[2]].URL) = "" /\ tasks[t].do.err = ""

\* every Result check can return for the configured targets up to now
ProbeResults ==
    { check(targets[i], do, c, c) :
        i \in Indices,
        do \in DoOutcomes(GoodURL, TRUE) \cup DoOutcomes(GoodURL, FALSE) \cup {NoAnswer},
        c \in 1..now }

\* C1 (as claimed): once the cancellation signal is issued Run starts no
\* further check cycle, and Run stops only when the cycle that was in flight
\* has finished.
C1_NoCycleAfterCancel ==
    [][ /\ (ctxDone => cyclesStarted' = cyclesStarted)
        /\ (runPc' = "stopped" => InFlight' = {}) ]_vars

\* C2 (as claimed): a tick that fires while the probes of a cycle are in
\* flight can start the next cycle, i.e. Run is at its select with the tick
\* ready while the previous cycle is still in flight.
C2_OverlapPossible ==
    (tickC = 1 /\ InFlight # {}) => runPc = "select"

\* C2 (amended): while any probe of a cycle is in flight Run is blocked in
\* wg.Wait of that cycle; a tick that fires meanwhile is buffered (at most
\* one), and no two cycles are in flight at once.
C2_NoOverlap ==
    /\ tickC \in {0, 1}
    /\ InFlight # {} => (runPc = "wait" /\ CyclesInFlight = {cyclesStarted})

\* C2 witness: the second cycle is in flight and the timer has fired again.
C2_Witness == cyclesStarted = 2 /\ InFlight # {} /\ tickC = 1

\* C3: every entry of a snapshot is one whole Result of one probe, and when
\* no goroutine is writing, every store entry is the Result of the goroutine
\* that wrote it last, also with two goroutines writing the same name.
C3_WholeEntry ==
    /\ \A n \in DOMAIN snap : snap[n] \in ProbeResults
    /\ mu.writer = {} => results = lastWritten
    /\ rpc = "copied" => snap = lastWritten

\* C3 witness: a snapshot was copied while the two goroutines of a duplicated
\* name both wait to write that name.
C3_Witness ==
    /\ ~UniqueNames
    /\ rpc = "copied"
    /\ "a" \in DOMAIN snap
    /\ \A i \in Indices : << cyclesStarted, i >> \in DOMAIN tasks
                            /\ tasks[<< cyclesStarted, i >>].pc = "lock"

\* C5: check returns a Result whatever happens, and it is healthy exactly
\* when a response came back with a status code below 400.
C5_HealthyIff ==
    \A t \in HasResult :
        LET r == tasks[t].result IN
        /\ r \in ProbeResults
        /\ r.Status \in Statuses
        /\ r.Status = StatusHealthy <=> (GotResponse(t) /\ tasks[t].do.code < 400)

\* C5 witness: a probe got a 400 and its Result is unhealthy with that code.
C5_Witness ==
    \E t \in HasResult :
        /\ GotResponse(t)
        /\ tasks[t].do.code = 400
        /\ tasks[t].result.Status = StatusUnhealthy
        /\ tasks[t].result.StatusCode = 400

\* C6: the error message is set exactly when no response came back, then
\* with the prefix of the failing step, no status code and unhealthy; with a
\* response the status code is the received one and the error is empty.
C6_ErrorXorCode ==
    \A t \in HasResult :
        LET r == tasks[t].result
            url == targets[t[2]].URL
        IN
        /\ r.Error # "" <=> ~GotResponse(t)
        /\ NewRequestErr(url) # "" => HasPrefix(r.Error, "bad request: ")
        /\ (NewRequestErr(url) = "" /\ tasks[t].do.err # "")
             => HasPrefix(r.Error, "request failed: ")
        /\ ~GotResponse(t) => (r.StatusCode = 0 /\ r.Status = StatusUnhealthy)
        /\ GotResponse(t) => (r.StatusCode = tasks[t].do.code /\ r.Error = "")

\* C6 witness: in one cycle one probe failed to build its request and the
\* other got a 400.
C6_Witness ==
    \E t, u \in HasResult :
        /\ HasPrefix(tasks[t].result.Error, "bad request: ")
        /\ GotResponse(u)
        /\ tasks[u].result.StatusCode = 400
        /\ tasks[u].result.Error = ""

\* C10: the first cycle starts before the ticker exists; after that the
\* cycles started are one more than the ticks received.
C10_CyclesAndTicks ==
    /\ runPc = "start" => (cyclesStarted = 0 /\ ticksConsumed = 0)
    /\ runPc # "start" => cyclesStarted = 1 + ticksConsumed
    /\ cyclesCompleted = 0 => (~ticker /\ tickC = 0 /\ ticksConsumed = 0)

\* C10 witness: a tick was received and started the second cycle.
C10_Witness == ticksConsumed = 1 /\ cyclesStarted = 2 /\ runPc = "wait"

\* Run is between two cycles: no checkAll is in progress
BetweenCycles == runPc \in {"newticker", "select", "stopped"}

\* the index of the target called n (names unique)
IndexOf(n) == CHOOSE i \in Indices : targets[i].Name = n

\* a call of Results() returns in this step
ResultsReturns == reads' # reads

\* C4 (as claimed): a Results() that returns after N >= 1 completed cycles,
\* with unique names and no cycle in progress, has exactly the configured
\* names as keys, each with the Result of that target's probe of cycle N.
C4_LatestCycle ==
    [][ (ResultsReturns /\ UniqueNames /\ BetweenCycles /\ cyclesCompleted >= 1)
          => /\ DOMAIN snap' = Names
             /\ \A n \in Names :
                  /\ probed[IndexOf(n)].cycle = cyclesCompleted
                  /\ snap'[n] = probed[IndexOf(n)].result ]_vars

\* C7: a Results() whose mirror read failed or came back empty returns the
\* in-memory store as it is: every name written so far with the Result
\* written last.
C7_FallbackIsStore ==
    [][ (ResultsReturns /\ (rerr' \/ DOMAIN rvals' = {}))
          => (snap' = results' /\ snap' = lastWritten') ]_vars

\* C7 witness: the mirror holds entries, its read failed, and Results()
\* returned every configured name from the store.
C7_Witness ==
    /\ reads = 1
    /\ rpc = "idle"
    /\ rerr
    /\ DOMAIN mirror # {}
    /\ DOMAIN snap = Names

\* C8 (as claimed): whatever mirror writes or reads failed, a Results() that
\* returns between two cycles has, for every name in the in-memory store,
\* the Result the store holds.
C8_StoreAuthoritative ==
    [][ (ResultsReturns /\ BetweenCycles)
          => \A n \in DOMAIN results :
               n \in DOMAIN snap' /\ snap'[n] = results[n] ]_vars

\* probes of the name n that have finished, metrics included
Finished(n) ==
    cyclesCompleted * Cardinality({ i \in Indices : targets[i].Name = n })
      + Cardinality({ t \in DOMAIN tasks : NameOf(t) = n /\ tasks[t].pc = "done" })

\* C9: a goroutine whose mirror write failed has installed its Result and
\* goes on to the metrics; every finished probe has counted once; the cycle
\* whose goroutines are done can return.
C9_MirrorFailureHarmless ==
    /\ \A t \in DOMAIN tasks :
         tasks[t].serr # "" =>
           /\ tasks[t].pc = "metrics"
           /\ NameOf(t) \in DOMAIN results
           /\ UniqueNames => results[NameOf(t)] = tasks[t].result
    /\ \A n \in Names :
         Count(checkTotal, << n, StatusHealthy >>)
           + Count(checkTotal, << n, StatusUnhealthy >>) = Finished(n)
    /\ (runPc = "wait" /\ InFlight = {}) => ENABLED CheckAllReturn

\* C9 witness: a mirror write failed in the first cycle (the store has a name
\* the mirror lacks), the second cycle runs, and one of its goroutines, its
\* mirror write failed too, is about to emit its metrics.
C9_Witness ==
    /\ cyclesStarted = 2
    /\ \E n \in DOMAIN results : n \notin DOMAIN mirror
    /\ \E t \in DOMAIN tasks : t[1] = 2 /\ tasks[t].serr # "" /\ tasks[t].pc = "metrics"

\* the places of a goroutine of checkAll between c.mu.Lock() and c.mu.Unlock()
LockedPcs == {"write", "write2", "unlock"}

\* C11: while checkAll runs, the cycle has exactly one goroutine per target,
\* and they run side by side; once checkAll has returned no goroutine is
\* left, and every target has an entry in the store (with unique names the
\* Result of its probe of that cycle); a goroutine that has its Result waits
\* for nothing but the lock, which no goroutine holds while it probes.
C11_FullCycle ==
    /\ runPc = "wait" => DOMAIN tasks = {cyclesStarted} \X Indices
    /\ runPc # "wait" => tasks = << >>
    /\ (BetweenCycles /\ cyclesCompleted >= 1) =>
         /\ DOMAIN results = Names
         /\ UniqueNames =>
              \A i \in Indices :
                /\ probed[i].cycle = cyclesCompleted
                /\ results[targets[i].Name] = probed[i].result
    /\ \A t \in DOMAIN tasks :
         /\ (tasks[t].pc = "lock" /\ CanLock(mu)) => ENABLED MuLock(t)
         /\ tasks[t].pc = "write" => ENABLED WriteHead(t)
         /\ tasks[t].pc = "write2" => ENABLED WriteTail(t)
         /\ tasks[t].pc = "unlock" => ENABLED Unlock(t)
         /\ t \in mu.writer => tasks[t].pc \in LockedPcs

\* C11 witness: in one cycle a goroutine has installed its Result and is done
\* while the probe of another target has not returned yet.
C11_Witness ==
    \E t, u \in DOMAIN tasks :
      /\ t[1] = u[1]
      /\ tasks[t].pc = "done"
      /\ tasks[u].pc = "check"
      /\ NameOf(t) \in DOMAIN results

\* a step outside every call of Results(): the caller holds what it got
OutsideResults == rpc = "idle" /\ rpc' = "idle" /\ reads' = reads /\ reads >= 1

ProbeFailed == \E n \in DOMAIN results : results[n].Error # ""

\* a mirror write has failed: the store has a name the mirror lacks, or a
\* goroutine has come back from c.storeResult with an error logged
MirrorWriteFailed ==
    \/ \E n \in DOMAIN results : n \notin DOMAIN mirror
    \/ \E t \in DOMAIN tasks : tasks[t].serr # ""

\* C13: Run has returned only if ctx was cancelled: after a failed probe or a
\* failed mirror write, without cancellation, Run has not returned; at its
\* select with a tick pending it can take the tick, and the cycle it is in
\* has a goroutine for every target.
C13_OnlyCancelStops ==
    /\ runPc = "stopped" => ctxDone
    /\ ((ProbeFailed \/ MirrorWriteFailed) /\ ~ctxDone) => runPc # "stopped"
    /\ (runPc = "select" /\ tickC = 1 /\ cyclesStarted < MaxCycles) => ENABLED SelectTick
    /\ (runPc = "wait" /\ cyclesStarted >= 2) =>
         \A i \in Indices : << cyclesStarted, i >> \in DOMAIN tasks

\* C13 witness: every stored Result of the first cycle has an error and a
\* mirror write of that cycle failed; ctx is not cancelled, and Run, having
\* taken a tick, is in its second cycle.
C13_Witness ==
    /\ ~ctxDone
    /\ cyclesCompleted = 1
    /\ cyclesStarted = 2
    /\ runPc = "wait"
    /\ DOMAIN results = Names
    /\ \A n \in DOMAIN results : results[n].Error # "" /\ results[n].CheckedAt = 1
    /\ \E n \in DOMAIN results : n \notin DOMAIN mirror

\* the places of Results() between c.mu.RLock() and the deferred c.mu.RUnlock()
RLockedPcs == {"locked", "copied"}

\* C14: the goroutines that hold the write lock are at the map write, never in
\* c.check (the request) nor in c.storeResult (the mirror write); the read
\* lock is held only around the copy in Results(), never over HGetAll.
C14_LockScope ==
    /\ \A t \in DOMAIN tasks : t \in mu.writer <=> tasks[t].pc \in LockedPcs
    /\ \A t \in DOMAIN tasks : tasks[t].pc \in {"check", "store", "metrics"} => t \notin mu.writer
    /\ mu.writer \subseteq DOMAIN tasks
    /\ mu.readers = IF rpc \in RLockedPcs THEN 1 ELSE 0
    /\ rpc \in {"idle", "fallback"} => mu.readers = 0

\* C14 witness: one goroutine holds the lock for its map write while another
\* is in its mirror write, and Results() has read the mirror and waits for
\* the lock.
C14_Witness ==
    /\ rpc = "fallback"
    /\ \E t, u \in DOMAIN tasks :
         /\ t \in mu.writer
         /\ tasks[u].pc = "store"

\* the goroutine t emits its metrics and ends in this step
Emits(t) == t \in DOMAIN tasks /\ tasks[t].pc = "metrics" /\ tasks'[t].pc = "done"

\* C15 (as claimed): whenever no goroutine is in flight, each name in the
\* store has a gauge, which is 1 exactly if the stored Result is healthy.
C15_GaugeFollowsStore ==
    InFlight = {} =>
      \A n \in DOMAIN results :
        /\ n \in DOMAIN targetUp
        /\ targetUp[n] = 1 <=> results[n].Status = StatusHealthy

\* C15 (amended): no counter ever decreases; the step in which a goroutine
\* ends adds exactly 1 to the counter of (its target, its Result's status),
\* leaves the other counters alone and sets the target's gauge to 1 for a
\* healthy Result, else 0; no other step touches the metrics; and with unique
\* target names, whenever no goroutine is in flight, each stored name's gauge
\* is 1 exactly if its stored Result is healthy.
C15_MetricsOncePerProbe ==
    [][/\ \A k \in DOMAIN checkTotal :
            k \in DOMAIN checkTotal' /\ checkTotal'[k] >= checkTotal[k]
       /\ \A t \in DOMAIN tasks :
            Emits(t) =>
              LET r == tasks[t].result
                  k == << NameOf(t), r.Status >>
              IN /\ Count(checkTotal', k) = Count(checkTotal, k) + 1
                 /\ \A j \in DOMAIN checkTotal' \ {k} :
                      j \in DOMAIN checkTotal /\ checkTotal'[j] = checkTotal[j]
                 /\ targetUp'[NameOf(t)] = IF r.Status = StatusHealthy THEN 1 ELSE 0
                 /\ \A n \in DOMAIN targetUp' \ {NameOf(t)} :
                      n \in DOMAIN targetUp /\ targetUp'[n] = targetUp[n]
       /\ (\A t \in DOMAIN tasks : ~Emits(t)) =>
            (checkTotal' = checkTotal /\ targetUp' = targetUp)
       /\ (UniqueNames /\ InFlight' = {}) =>
            \A n \in DOMAIN results' :
              /\ n \in DOMAIN targetUp'
              /\ targetUp'[n] = 1 <=> results'[n].Status = StatusHealthy]_vars

\* C15 witness: two cycles are over, names are unique; a target that was
\* unhealthy in one cycle and healthy in the other has its gauge at 1 and
\* one count of each outcome.
C15_Witness ==
    /\ UniqueNames
    /\ cyclesCompleted = 2
    /\ InFlight = {}
    /\ \E n \in DOMAIN results :
         /\ results[n].Status = StatusHealthy
         /\ targetUp[n] = 1
         /\ Count(checkTotal, << n, StatusHealthy >>) = 1
         /\ Count(checkTotal, << n, StatusUnhealthy >>) = 1

\* C16 (as claimed): a Results() whose read of the mirror failed, or read an
\* empty hash, or read a field that does not unmarshal, returns the
\* in-memory store.
C16_AnyReadErrorFallsBack ==
    [][(/\ ResultsReturns
        /\ \/ rerr'
           \/ DOMAIN rvals' = {}
           \/ \E k \in DOMAIN rvals' : ~UnmarshalOk(rvals'[k]))
       => snap' = results']_vars

\* C17: once ctx is cancelled, Run returns in the end, whether a tick is
\* pending, a cycle is running or ticks keep coming.
C17_ShutdownLive == ctxDone ~> runPc = "stopped"

\* C17 witness: ctx was cancelled and Run has returned with a tick still in
\* the channel; no second cycle was started, and the first had a probe
\* without error.
C17_Witness ==
    /\ ctxDone
    /\ runPc = "stopped"
    /\ tickC = 1
    /\ cyclesStarted = 1
    /\ \E n \in DOMAIN results : results[n].Error = ""

\* C18: after every step the keys of the store are names of configured
\* targets, each key is the name of a target one of whose probes has
\* returned, and every key the store had before the step is still there.
C18_KeysOnlyGrow ==
    [][/\ DOMAIN results' \subseteq Names
       /\ \A n \in DOMAIN results' :
            \E i \in DOMAIN probed' : targets[i].Name = n
       /\ DOMAIN results \subseteq DOMAIN results']_vars

\* C18 witness: in the first cycle one target has its entry while the probe
\* of a target of another name has not returned: the store has one key of
\* the two configured names.
C18_Witness ==
    /\ cyclesStarted = 1
    /\ DOMAIN results # {}
    /\ DOMAIN results # Names
    /\ \E t \in DOMAIN tasks : tasks[t].pc = "check" /\ NameOf(t) \notin DOMAIN results

\* the goroutine t takes the lock for its map write in this step
TakesLock(t) == t \in DOMAIN tasks /\ tasks[t].pc = "lock" /\ tasks'[t].pc = "write"

\* C19: the goroutines in flight belong to one cycle, the one started last,
\* whose number the clock reading of its Results is; and with unique names a
\* goroutine that takes the lock to write its target's entry is of a later
\* cycle than the one the entry it replaces came from.
C19_NoStaleOverwrite ==
    [][/\ Cardinality(CyclesInFlight') <= 1
       /\ CyclesInFlight' \subseteq {cyclesStarted'}
       /\ \A t \in DOMAIN tasks :
            TakesLock(t) =>
              /\ tasks[t].result.CheckedAt = t[1]
              /\ (UniqueNames /\ NameOf(t) \in DOMAIN results) =>
                   results[NameOf(t)].CheckedAt < t[1]]_vars

\* C19 witness: with unique names a goroutine of the second cycle holds the
\* lock to replace an entry that the first cycle wrote.
C19_Witness ==
    /\ UniqueNames
    /\ \E t \in DOMAIN tasks :
         /\ t[1] = 2
         /\ tasks[t].pc = "write"
         /\ NameOf(t) \in DOMAIN results
         /\ results[NameOf(t)].CheckedAt = 1

\* C20: Run returns with no goroutine of checkAll in flight; once it has
\* returned it stays so, no step changes the store or the metrics, and a
\* Results() that copies or returns from then on yields the store as it was
\* when Run returned.
C20_QuietAfterStop ==
    [][/\ runPc' = "stopped" => InFlight' = {}
       /\ runPc = "stopped" =>
            /\ runPc' = "stopped"
            /\ results' = results
            /\ checkTotal' = checkTotal
            /\ targetUp' = targetUp
            /\ rpc' = "copied" => snap' = results
            /\ ResultsReturns => snap' = results']_vars

\* C20 witness: Run has returned after two cycles and a Results() that found
\* it so has copied the store, which has every configured name.
C20_Witness ==
    /\ runPc = "stopped"
    /\ cyclesCompleted = 2
    /\ rpc = "copied"
    /\ snap = results
    /\ DOMAIN snap = Names

====
